---- MODULE Spec2Model ----
(***************************************************************************)
(* Model of vina_pipeline:                                                 *)
(*   calculate_docking_metrics.py  (metrics extractor: one Vina log ->     *)
(*                                  one CSV row on standard output)        *)
(*   6_plot_results.py             (plot generator: CSV -> chart files)    *)
(*                                                                         *)
(* Text is a sequence of one-character tokens; the file extension          *)
(* ".pdbqt" is one token.  Floats are fixed-point integers counting        *)
(* thousandths.  A Python value is a tagged record, so that None, str,     *)
(* float and int stay distinguishable the way isinstance() sees them.      *)
(***************************************************************************)
EXTENDS Integers, Sequences, FiniteSets, TLC

\* ------------------------------------------------------------------------
\* Bounds of the model
\* ------------------------------------------------------------------------
\* longest log (in lines) scanned when the line loop is examined
ScanMaxLines == 2
\* longest log (in lines) when the directory fallback is examined
FallbackMaxLines == 1
\* longest log (in lines) given to a whole run of the extractor
MainMaxLines == 1
\* longest basename (in tokens) of the log file's directory
MaxDirLen == 5
\* longest list of ligand search directories
MaxSearchDirs == 2
\* most rows of the CSV given to the plot generator
MaxRows == 2

SeqsUpTo(S, n) == UNION {[1..k -> S] : k \in 0..n}

\* ------------------------------------------------------------------------
\* Python values
\* ------------------------------------------------------------------------
None == [t |-> "None"]
Str(s) == [t |-> "str", v |-> s]
Float(m) == [t |-> "float", v |-> m]
PyInt(n) == [t |-> "int", v |-> n]

\* a truthiness under which only None is false
TruthyNotNone(x) == x # None

\* Python truthiness of a str-or-None value (`if receptor_name and ...`)
Truthy(x) == x # None /\ ~(x.t = "str" /\ x.v = <<>>)

\* ------------------------------------------------------------------------
\* Text helpers (str methods and os.path functions used by the code)
\* ------------------------------------------------------------------------
EXT == ".pdbqt"
Digits == <<"0", "1", "2", "3", "4", "5", "6", "7", "8", "9">>
DigitVal(c) == (CHOOSE d \in 1..10 : Digits[d] = c) - 1

\* s.rfind(c) + 1: position of the last c in s, 0 when there is none
Rfind(s, c) ==
    IF \E i \in 1..Len(s) : s[i] = c
    THEN CHOOSE i \in 1..Len(s) : s[i] = c /\ \A j \in (i+1)..Len(s) : s[j] # c
    ELSE 0

\* s.find(c) + 1: position of the first c in s, 0 when there is none
Find(s, c) ==
    IF \E i \in 1..Len(s) : s[i] = c
    THEN CHOOSE i \in 1..Len(s) : s[i] = c /\ \A j \in 1..(i-1) : s[j] # c
    ELSE 0

RECURSIVE rstrip(_, _)
rstrip(s, c) ==
    IF s # <<>> /\ s[Len(s)] = c THEN rstrip(SubSeq(s, 1, Len(s) - 1), c) ELSE s

RECURSIVE lstrip(_, _)
lstrip(s, c) ==
    IF s # <<>> /\ s[1] = c THEN lstrip(Tail(s), c) ELSE s

\* str.strip(): whitespace off both ends
strip(s) == rstrip(lstrip(s, " "), " ")

\* os.path.basename: what follows the last "/"
basename(p) == SubSeq(p, Rfind(p, "/") + 1, Len(p))

\* os.path.dirname: what precedes the last "/", trailing slashes removed
\* unless the head is made of slashes only
dirname(p) ==
    LET head == SubSeq(p, 1, Rfind(p, "/"))
    IN  IF head # <<>> /\ \E i \in 1..Len(head) : head[i] # "/"
        THEN rstrip(head, "/")
        ELSE head

\* s.replace(".pdbqt", ""): every occurrence removed
replace_pdbqt(s) == SelectSeq(s, LAMBDA c : c # EXT)

\* s.split(c): always at least one part
RECURSIVE split(_, _)
split(s, c) ==
    LET i == Find(s, c)
    IN  IF i = 0
        THEN <<s>>
        ELSE <<SubSeq(s, 1, i - 1)>> \o split(SubSeq(s, i + 1, Len(s)), c)

\* c.join(parts[i..])
RECURSIVE JoinFrom(_, _, _)
JoinFrom(c, parts, i) ==
    IF i > Len(parts) THEN <<>>
    ELSE IF i = Len(parts) THEN parts[i]
    ELSE parts[i] \o <<c>> \o JoinFrom(c, parts, i + 1)

\* c.join(parts)
join(c, parts) == JoinFrom(c, parts, 1)

\* digits of a natural number, most significant first
RECURSIVE NatToText(_)
NatToText(n) ==
    IF n < 10 THEN <<Digits[n + 1]>>
    ELSE NatToText(n \div 10) \o <<Digits[(n % 10) + 1]>>

RECURSIVE TextToNat(_)
TextToNat(s) ==
    IF s = <<>> THEN 0
    ELSE TextToNat(SubSeq(s, 1, Len(s) - 1)) * 10 + DigitVal(s[Len(s)])

Abs(n) == IF n < 0 THEN -n ELSE n

\* float(text) for a text matched by [-+]?\d*\.?\d+, in thousandths
\* (fraction digits beyond the third are dropped by the fixed-point model)
float(text) ==
    LET neg  == text # <<>> /\ text[1] = "-"
        body == IF text # <<>> /\ text[1] \in {"-", "+"} THEN Tail(text) ELSE text
        dot  == Find(body, ".")
        ip   == IF dot = 0 THEN body ELSE SubSeq(body, 1, dot - 1)
        fp   == IF dot = 0 THEN <<>> ELSE SubSeq(body, dot + 1, Len(body))
        fp3  == SubSeq(fp \o <<"0", "0", "0">>, 1, 3)
        mag  == TextToNat(ip) * 1000 + TextToNat(fp3)
    IN  IF neg THEN -mag ELSE mag

\* str(n) for an int
str_int(n) == IF n < 0 THEN <<"-">> \o NatToText(-n) ELSE NatToText(n)

\* f"{value:.3f}" of a float held in thousandths
format_3f(m) ==
    LET a  == Abs(m)
        fr == NatToText(1000 + (a % 1000))
    IN  (IF m < 0 THEN <<"-">> ELSE <<>>)
        \o NatToText(a \div 1000) \o <<".">> \o Tail(fr)

\* f"{value:.2f}" of a float held in thousandths (ties to even)
format_2f(m) ==
    LET a  == Abs(m)
        q  == a \div 10
        r  == a % 10
        h  == IF r > 5 \/ (r = 5 /\ q % 2 = 1) THEN q + 1 ELSE q
        fr == NatToText(100 + (h % 100))
    IN  (IF m < 0 THEN <<"-">> ELSE <<>>)
        \o NatToText(h \div 100) \o <<".">> \o Tail(fr)

\* ------------------------------------------------------------------------
\* calculate_pKi
\* ------------------------------------------------------------------------
\* math.exp(dG / RT) raises OverflowError above this affinity (thousandths)
ExpOverflowAbove == 420535
\* math.exp(dG / RT) is 0.0 below this affinity (thousandths)
ExpZeroBelow == -441480
\* RT * ln(10), in thousandths: pKi = -log10(exp(dG / RT)) = -dG / (RT ln 10)
RTLn10 == 1364

calculate_pKi(delta_G) ==
    IF delta_G = None THEN [value |-> None, warned |-> <<>>]
    ELSE IF delta_G.v > ExpOverflowAbove
         THEN [value |-> None, warned |-> <<"pKi_error">>]
    ELSE IF delta_G.v < ExpZeroBelow
         THEN [value |-> None, warned |-> <<"Ki_non_positive">>]
    ELSE [value |-> Float(-((delta_G.v * 1000) \div RTLn10)), warned |-> <<>>]

\* ------------------------------------------------------------------------
\* parse_vina_log
\* ------------------------------------------------------------------------
\* A line of the log is what the three compiled patterns yield on it:
\* group(1) of receptor_pattern.search, of ligand_pattern.search and of
\* affinity_pattern.match, or None where the pattern does not match.
Line(r, l, a) == [receptor_match |-> r, ligand_match |-> l, affinity_match |-> a]

\* os.path.basename(match.group(1).strip()).replace(".pdbqt", "")
ExtractName(group) == replace_pdbqt(basename(strip(group)))

ScanStart ==
    [receptor |-> None, ligand |-> None, affinity |-> None,
     receptor_parsed_from_log |-> FALSE, ligand_parsed_from_log |-> FALSE,
     broke |-> FALSE]

\* a scan that stops as soon as the affinity is known
ScanLineBreakEarly(st, line) ==
    LET r == IF ~st.receptor_parsed_from_log /\ line.receptor_match # None
             THEN [st EXCEPT !.receptor = Str(ExtractName(line.receptor_match.v)),
                             !.receptor_parsed_from_log = TRUE]
             ELSE st
        l == IF ~r.ligand_parsed_from_log /\ line.ligand_match # None
             THEN [r EXCEPT !.ligand = Str(ExtractName(line.ligand_match.v)),
                            !.ligand_parsed_from_log = TRUE]
             ELSE r
    IN  IF l.affinity = None /\ line.affinity_match # None
        THEN [l EXCEPT !.affinity = Float(float(line.affinity_match.v)),
                       !.broke = TRUE]
        ELSE l

\* a scan in which the names are taken from every matching line
ScanLineOverwrite(st, line) ==
    LET r == IF line.receptor_match # None
             THEN [st EXCEPT !.receptor = Str(ExtractName(line.receptor_match.v)),
                             !.receptor_parsed_from_log = TRUE]
             ELSE st
        l == IF line.ligand_match # None
             THEN [r EXCEPT !.ligand = Str(ExtractName(line.ligand_match.v)),
                            !.ligand_parsed_from_log = TRUE]
             ELSE r
    IN  IF l.affinity = None /\ line.affinity_match # None
        THEN [l EXCEPT !.affinity = Float(float(line.affinity_match.v)),
                       !.broke = l.receptor_parsed_from_log /\ l.ligand_parsed_from_log]
        ELSE l

\* one iteration of `for line in f`
ScanLine(st, line) ==
    LET r == IF ~st.receptor_parsed_from_log /\ line.receptor_match # None
             THEN [st EXCEPT !.receptor = Str(ExtractName(line.receptor_match.v)),
                             !.receptor_parsed_from_log = TRUE]
             ELSE st
        l == IF ~r.ligand_parsed_from_log /\ line.ligand_match # None
             THEN [r EXCEPT !.ligand = Str(ExtractName(line.ligand_match.v)),
                            !.ligand_parsed_from_log = TRUE]
             ELSE r
    IN  IF l.affinity = None /\ line.affinity_match # None
        THEN [l EXCEPT !.affinity = Float(float(line.affinity_match.v)),
                       !.broke = l.receptor_parsed_from_log /\ l.ligand_parsed_from_log]
        ELSE l

\* the loop over lines i..n, left at the first `break`
RECURSIVE ScanLines(_, _, _, _)
ScanLines(lines, i, n, st) ==
    IF i > n \/ st.broke THEN st
    ELSE ScanLines(lines, i + 1, n, ScanLine(st, lines[i]))

\* a fallback that takes both names from the directory whenever it runs
DirFallbackOverwrite(st, log_file) ==
    LET parts == split(basename(dirname(log_file)), "_")
    IN  IF ~st.receptor_parsed_from_log \/ ~st.ligand_parsed_from_log
        THEN IF Len(parts) >= 2
             THEN [st EXCEPT !.receptor = Str(parts[1]),
                             !.ligand = Str(join("_", Tail(parts)))]
             ELSE st
        ELSE st

\* a fallback that takes the second part alone for the ligand
DirFallbackSecondPart(st, log_file) ==
    LET parts == split(basename(dirname(log_file)), "_")
    IN  IF ~st.receptor_parsed_from_log \/ ~st.ligand_parsed_from_log
        THEN IF Len(parts) >= 2
             THEN [st EXCEPT
                     !.receptor = IF ~st.receptor_parsed_from_log
                                  THEN Str(parts[1]) ELSE @,
                     !.ligand = IF ~st.ligand_parsed_from_log
                                THEN Str(parts[2]) ELSE @]
             ELSE st
        ELSE st

\* Attempt 2: names from the directory of the log file
DirFallback(st, log_file) ==
    LET parts == split(basename(dirname(log_file)), "_")
    IN  IF ~st.receptor_parsed_from_log \/ ~st.ligand_parsed_from_log
        THEN IF Len(parts) >= 2
             THEN [st EXCEPT
                     !.receptor = IF ~st.receptor_parsed_from_log
                                  THEN Str(parts[1]) ELSE @,
                     !.ligand = IF ~st.ligand_parsed_from_log
                                THEN Str(join("_", Tail(parts))) ELSE @]
             ELSE st
        ELSE st

\* the warning of the fallback's else-branch
DirFallbackWarned(st, log_file) ==
    IF (~st.receptor_parsed_from_log \/ ~st.ligand_parsed_from_log)
       /\ Len(split(basename(dirname(log_file)), "_")) < 2
       /\ (st.receptor = None \/ st.ligand = None)
    THEN <<"no_names_in_log_or_dir">> ELSE <<>>

\* a version whose FileNotFoundError handler falls through to the fallback
parse_vina_log_no_return(log_file, file) ==
    LET fb == DirFallback(ScanStart, log_file)
        scan == ScanLines(file.lines, 1, Len(file.lines), ScanStart)
        fs2 == DirFallback(scan, log_file)
    IN  IF file.status = "missing"
        THEN [receptor |-> fb.receptor, ligand |-> fb.ligand, affinity |-> None,
              warned |-> <<"log_not_found">>]
        ELSE [receptor |-> fs2.receptor, ligand |-> fs2.ligand,
              affinity |-> fs2.affinity, warned |-> <<>>]

\* The file behind log_file: status "ok" (readable), "missing"
\* (FileNotFoundError) or "error" (any other exception, raised once the
\* lines of the file were iterated, unless the loop was left before).
parse_vina_log(log_file, file) ==
    IF file.status = "missing"
    THEN [receptor |-> None, ligand |-> None, affinity |-> None,
          warned |-> <<"log_not_found">>]
    ELSE
      LET scan == ScanLines(file.lines, 1, Len(file.lines), ScanStart)
          w1   == IF file.status = "error" /\ ~scan.broke
                  THEN <<"log_read_error">> ELSE <<>>
          fb   == DirFallback(scan, log_file)
          w2   == DirFallbackWarned(scan, log_file)
          w3   == IF fb.receptor = None \/ fb.ligand = None
                  THEN <<"no_names">> ELSE <<>>
          w4   == IF fb.affinity = None THEN <<"no_affinity">> ELSE <<>>
      IN  [receptor |-> fb.receptor, ligand |-> fb.ligand,
           affinity |-> fb.affinity, warned |-> w1 \o w2 \o w3 \o w4]

\* ------------------------------------------------------------------------
\* find_ligand_file
\* ------------------------------------------------------------------------
\* os.path.join(directory, name)
path_join(directory, name) ==
    IF name # <<>> /\ name[1] = "/" THEN name
    ELSE IF directory = <<>> \/ directory[Len(directory)] = "/" THEN directory \o name
    ELSE directory \o <<"/">> \o name

\* first directory of dirs[i..] holding ligand_name + extension; 0 when none
RECURSIVE FirstDirWith(_, _, _, _, _)
FirstDirWith(fs, ligand_name, extension, dirs, i) ==
    IF i > Len(dirs) THEN 0
    ELSE IF path_join(dirs[i], ligand_name \o <<extension>>) \in fs THEN i
    ELSE FirstDirWith(fs, ligand_name, extension, dirs, i + 1)

\* first directory of dirs[i..] holding either file, SDF tried first in each
RECURSIVE FirstDirWithAny(_, _, _, _)
FirstDirWithAny(fs, ligand_name, dirs, i) ==
    IF i > Len(dirs) THEN <<0, "none">>
    ELSE IF path_join(dirs[i], ligand_name \o <<".sdf">>) \in fs THEN <<i, ".sdf">>
    ELSE IF path_join(dirs[i], ligand_name \o <<EXT>>) \in fs THEN <<i, EXT>>
    ELSE FirstDirWithAny(fs, ligand_name, dirs, i + 1)

\* a search that looks for both files directory by directory
find_ligand_file_per_dir(fs, ligand_name, search_dirs) ==
    LET hit == FirstDirWithAny(fs, ligand_name, search_dirs, 1)
    IN  IF hit[1] = 0
        THEN [path |-> None, file_type |-> None, warned |-> <<"ligand_file_not_found">>]
        ELSE [path |-> Str(path_join(search_dirs[hit[1]], ligand_name \o <<hit[2]>>)),
              file_type |-> Str(IF hit[2] = EXT THEN <<"pdbqt">> ELSE <<"sdf">>),
              warned |-> <<>>]

\* fs is the set of paths for which os.path.exists is true
find_ligand_file(fs, ligand_name, search_dirs) ==
    LET s == FirstDirWith(fs, ligand_name, ".sdf", search_dirs, 1)
        p == FirstDirWith(fs, ligand_name, EXT, search_dirs, 1)
    IN  IF s # 0
        THEN [path |-> Str(path_join(search_dirs[s], ligand_name \o <<".sdf">>)),
              file_type |-> Str(<<"sdf">>), warned |-> <<>>]
        ELSE IF p # 0
        THEN [path |-> Str(path_join(search_dirs[p], ligand_name \o <<EXT>>)),
              file_type |-> Str(<<"pdbqt">>), warned |-> <<>>]
        ELSE [path |-> None, file_type |-> None, warned |-> <<"ligand_file_not_found">>]

\* ------------------------------------------------------------------------
\* load_molecule, calculate_ligand_metrics (RDKit is the environment)
\* ------------------------------------------------------------------------
MetricKeys == {<<"MW">>, <<"LogP">>, <<"TPSA">>, <<"NHA">>, <<"NRB">>,
               <<"HBD">>, <<"HBA">>, <<"SASA">>, <<"QED">>}

\* A molecule is what RDKit will answer about it.
Mol(raises, conformers, nha, sasa, logp) ==
    [raises |-> raises, conformers |-> conformers, NHA |-> nha, SASA |-> sasa,
     LogP |-> logp, MW |-> 180160, TPSA |-> 63600, NRB |-> 3, HBD |-> 1,
     HBA |-> 3, Qed |-> 550]

\* What RDKit does with the file: "ok", "multi" (an SDF of several
\* molecules), "empty" (an SDF supplier of length 0), "unreadable" (the
\* reader yields None), "sanitize_fail", "raises" (any exception).
LoadOutcomes(file_type) ==
    IF file_type = Str(<<"sdf">>)
    THEN {"ok", "multi", "empty", "unreadable", "sanitize_fail", "raises"}
    ELSE {"ok", "unreadable", "sanitize_fail", "raises"}

load_molecule(file_type, outcome, molecule) ==
    CASE outcome = "ok" -> [mol |-> molecule, warned |-> <<>>]
      [] outcome = "multi" -> [mol |-> molecule, warned |-> <<"sdf_multiple">>]
      [] outcome = "empty" -> [mol |-> None, warned |-> <<>>]
      [] outcome = "unreadable" ->
            [mol |-> None,
             warned |-> IF file_type = Str(<<"pdbqt">>)
                        THEN <<"pdbqt_unreadable">> ELSE <<>>]
      [] outcome = "sanitize_fail" -> [mol |-> None, warned |-> <<"sanitize_failed">>]
      [] outcome = "raises" -> [mol |-> None, warned |-> <<"load_error">>]

AllNone == [k \in MetricKeys |-> None]

\* a version without the try/except around the RDKit calls
calculate_ligand_metrics_unguarded(mol) ==
    [metrics |-> AllNone, warned |-> <<>>, raised |-> mol # None /\ mol.raises]

\* raised: an exception leaves the function (none does: all are caught)
calculate_ligand_metrics(mol) ==
    IF mol = None THEN [metrics |-> AllNone, warned |-> <<>>, raised |-> FALSE]
    ELSE IF mol.raises
    THEN [metrics |-> AllNone, warned |-> <<"rdkit_error">>, raised |-> FALSE]
    ELSE [raised |-> FALSE, metrics |->
            [k \in MetricKeys |->
               CASE k = <<"MW">> -> Float(mol.MW)
                 [] k = <<"LogP">> -> Float(mol.LogP)
                 [] k = <<"TPSA">> -> Float(mol.TPSA)
                 [] k = <<"NHA">> -> PyInt(mol.NHA)
                 [] k = <<"NRB">> -> PyInt(mol.NRB)
                 [] k = <<"HBD">> -> PyInt(mol.HBD)
                 [] k = <<"HBA">> -> PyInt(mol.HBA)
                 [] k = <<"SASA">> -> IF mol.conformers > 0 THEN Float(mol.SASA) ELSE None
                 [] k = <<"QED">> -> Float(mol.Qed)],
          warned |-> IF mol.conformers > 0 THEN <<>> ELSE <<"no_conformer">>]

\* ------------------------------------------------------------------------
\* calculate_efficiency_metrics
\* ------------------------------------------------------------------------
EfficiencyKeys == {<<"LE">>, <<"LLE">>, <<"SILE_N">>, <<"SILE_SASA">>}

\* nha ** 0.3 in thousandths, tabulated for the heavy-atom counts of Molecules
pow_nha_exp(nha) ==
    IF nha = 0 THEN 0 ELSE IF nha = 20 THEN 2456 ELSE 1000

\* what a division leaves behind when Python raises ZeroDivisionError
ZeroDivisionError == [t |-> "ZeroDivisionError"]

\* a / b on fixed-point operands
truediv(a, b) == IF b = 0 THEN ZeroDivisionError ELSE Float(a \div b)

\* a version that divides whenever the operands are present
calculate_efficiency_metrics_unguarded(aff, pki, ligand_metrics) ==
    LET nha  == ligand_metrics[<<"NHA">>]
        logp == ligand_metrics[<<"LogP">>]
        sasa == ligand_metrics[<<"SASA">>]
        metrics ==
           [k \in EfficiencyKeys |->
              CASE k = <<"LE">> ->
                     IF aff # None /\ nha # None
                     THEN truediv(-aff.v, nha.v) ELSE None
                [] k = <<"LLE">> ->
                     IF pki # None /\ logp # None
                     THEN Float(pki.v - logp.v) ELSE None
                [] k = <<"SILE_N">> -> None
                [] k = <<"SILE_SASA">> ->
                     IF pki # None /\ sasa # None
                     THEN truediv(pki.v * 1000, sasa.v) ELSE None]
    IN  [metrics |-> metrics, warned |-> <<>>,
         raised |-> \E k \in EfficiencyKeys : metrics[k] = ZeroDivisionError]

\* sasa > 1e-6 on thousandths: a SASA of 0 stands for every SASA <= 1e-6.
\* raised: a ZeroDivisionError leaves the function (only the one of the
\* SILE_N division is caught).
calculate_efficiency_metrics(aff, pki, ligand_metrics) ==
    LET nha  == ligand_metrics[<<"NHA">>]
        logp == ligand_metrics[<<"LogP">>]
        sasa == ligand_metrics[<<"SASA">>]
        neg_affinity == IF aff # None THEN Float(-aff.v) ELSE None
        sile_n == IF neg_affinity # None /\ nha # None /\ nha.v > 0
                  THEN truediv(neg_affinity.v * 1000, pow_nha_exp(nha.v))
                  ELSE None
        metrics ==
           [k \in EfficiencyKeys |->
              CASE k = <<"LE">> ->
                     IF neg_affinity # None /\ nha # None /\ nha.v > 0
                     THEN truediv(neg_affinity.v, nha.v) ELSE None
                [] k = <<"LLE">> ->
                     IF pki # None /\ logp # None
                     THEN Float(pki.v - logp.v) ELSE None
                [] k = <<"SILE_N">> ->
                     IF sile_n = ZeroDivisionError THEN None ELSE sile_n
                [] k = <<"SILE_SASA">> ->
                     IF pki # None /\ sasa # None /\ sasa.v > 0
                     THEN truediv(pki.v * 1000, sasa.v) ELSE None]
    IN  [metrics |-> metrics,
         warned |-> (IF sile_n = ZeroDivisionError
                     THEN <<"nha_zero">> ELSE <<>>)
                    \o (IF ~(pki # None /\ sasa # None /\ sasa.v > 0)
                           /\ sasa # None /\ sasa.v <= 0
                        THEN <<"sasa_near_zero">> ELSE <<>>),
         raised |-> \E k \in EfficiencyKeys : metrics[k] = ZeroDivisionError]

\* ------------------------------------------------------------------------
\* __main__ of calculate_docking_metrics.py: output formatting
\* ------------------------------------------------------------------------
header ==
    << <<"Receptor">>, <<"Ligand">>, <<"Affinity", "_kcal_mol">>, <<"pKi">>,
       <<"MW">>, <<"LogP">>, <<"TPSA">>, <<"NHA">>, <<"NRB">>, <<"HBD">>,
       <<"HBA">>, <<"SASA", "_A2">>, <<"QED">>, <<"LE">>, <<"LLE">>,
       <<"SILE_N">>, <<"SILE_SASA">> >>

\* key.replace('_kcal_mol','').replace('_A2','')
internal_key(key) == SelectSeq(key, LAMBDA t : t \notin {"_kcal_mol", "_A2"})

ResultKeys == {internal_key(header[i]) : i \in 1..Len(header)}

NA == <<"N", "A">>

\* one pass of the formatting loop
format_value(key, value) ==
    IF value = None THEN NA
    ELSE IF value.t = "float"
         THEN IF key \in {<<"Affinity", "_kcal_mol">>, <<"LE">>, <<"SILE_N">>}
              THEN format_3f(value.v)
              ELSE IF key \in {<<"pKi">>, <<"LogP">>, <<"TPSA">>, <<"SASA", "_A2">>,
                               <<"QED">>, <<"LLE">>, <<"SILE_SASA">>, <<"MW">>}
              THEN format_2f(value.v)
              ELSE format_3f(value.v)
    ELSE IF value.t = "int" THEN str_int(value.v)
    ELSE value.v

formatted_values(res) ==
    [i \in 1..Len(header) |-> format_value(header[i], res[internal_key(header[i])])]

\* ",".join(formatted_values)
csv_row(res) == join(",", formatted_values(res))

\* ------------------------------------------------------------------------
\* 6_plot_results.py: the table and the pandas operations used on it
\* ------------------------------------------------------------------------
\* Column names are atoms.  A cell is a number (Float), a text that is not a
\* number (Str) or missing (None, pandas' NaN).  A table is a set of column
\* names and a sequence of rows, each a function from the columns to cells.
numeric_cols ==
    <<"Affinity_kcal_mol", "pKi", "MW", "LogP", "TPSA", "NHA", "NRB", "HBD",
      "HBA", "SASA_A2", "QED", "LE", "LLE", "SILE_N", "SILE_SASA">>
NumericCols == {numeric_cols[i] : i \in 1..Len(numeric_cols)}
KeyCols == {"Affinity_kcal_mol", "Receptor", "Ligand"}
AllCols == {"Receptor", "Ligand"} \cup NumericCols
selected_metrics ==
    <<"Affinity_kcal_mol", "pKi", "MW", "LogP", "LE", "SILE_SASA", "QED">>

\* pd.to_numeric(errors='coerce') on every numeric column that is present
to_numeric(table) ==
    [table EXCEPT !.rows =
        [i \in 1..Len(table.rows) |->
            [c \in table.columns |->
                IF c \in NumericCols /\ table.rows[i][c].t = "str"
                THEN None ELSE table.rows[i][c]]]]

\* df.dropna(subset=...): the rows with a value in every column of subset
dropna(table, subset) ==
    [table EXCEPT !.rows = SelectSeq(table.rows,
                                     LAMBDA r : \A c \in subset : r[c] # None)]

empty(table) == table.rows = <<>>

\* df['Receptor'].unique(), in order of first appearance
RECURSIVE UniqueFrom(_, _, _)
UniqueFrom(rows, i, seen) ==
    IF i > Len(rows) THEN <<>>
    ELSE IF rows[i]["Receptor"] \in seen THEN UniqueFrom(rows, i + 1, seen)
    ELSE <<rows[i]["Receptor"]>>
         \o UniqueFrom(rows, i + 1, seen \cup {rows[i]["Receptor"]})
unique_receptors(table) == UniqueFrom(table.rows, 1, {})

\* Python's order on str: by code point, position by position
CodePoint(c) == CASE c = "A" -> 65 [] c = "B" -> 66 [] c = "a" -> 97
RECURSIVE LessFrom(_, _, _)
LessFrom(s, t, i) ==
    IF i > Len(t) THEN FALSE
    ELSE IF i > Len(s) THEN TRUE
    ELSE IF s[i] = t[i] THEN LessFrom(s, t, i + 1)
    ELSE CodePoint(s[i]) < CodePoint(t[i])
LessStr(a, b) == LessFrom(a.v, b.v, 1)

RECURSIVE SortSet(_)
SortSet(S) ==
    IF S = {} THEN <<>>
    ELSE LET m == CHOOSE x \in S : \A y \in S \ {x} : LessStr(x, y)
         IN  <<m>> \o SortSet(S \ {m})

\* the receptors left in order of first appearance
receptors_unsorted(table) == unique_receptors(table)

\* sorted(df['Receptor'].unique())
receptors_sorted(table) ==
    LET u == unique_receptors(table)
    IN  SortSet({u[i] : i \in 1..Len(u)})

\* a loader whose handlers print the error and carry on with an empty table
load_data_no_exit(csv) ==
    [failed |-> FALSE,
     df |-> [columns |-> AllCols, rows |-> <<>>],
     out |-> << <<"load_error">> >>]

\* The try block at the top of the script: read_csv, numeric coercion,
\* dropna on the key columns.  failed: one of the handlers ran (exit(1)).
load_data(csv) ==
    IF csv.status = "missing"
    THEN [failed |-> TRUE, df |-> None, out |-> << <<"csv_not_found">> >>]
    ELSE IF csv.status = "unreadable"
    THEN [failed |-> TRUE, df |-> None, out |-> << <<"load_error">> >>]
    ELSE LET absent == SelectSeq(numeric_cols, LAMBDA c : c \notin csv.columns)
             warn   == [i \in 1..Len(absent) |-> <<"column_not_found", absent[i]>>]
             table  == [columns |-> csv.columns, rows |-> csv.rows]
         IN  IF ~(KeyCols \subseteq csv.columns)
             THEN [failed |-> TRUE, df |-> None,
                   out |-> << <<"loaded">> >> \o warn \o << <<"load_error">> >>]
             ELSE [failed |-> FALSE,
                   df |-> dropna(to_numeric(table), KeyCols),
                   out |-> << <<"loaded">> >> \o warn \o << <<"rows_dropped">> >>]

\* file names of the charts
Chart(name) == <<name, ".png">>
TopLigandsChart(receptor) == <<"top_ligands_">> \o receptor.v \o <<".png">>

\* ------------------------------------------------------------------------
\* State of one run of the metrics extractor
\* ------------------------------------------------------------------------
VARIABLES
    pc,             \* position in __main__
    log_file,       \* args.vina_log_file
    file,           \* what is behind log_file: status and lines
    ligand_dirs,    \* args.ligand_dirs
    fs,             \* paths for which os.path.exists is true
    receptor_name, ligand_name, affinity,
    results,        \* the results dictionary
    ligand_file,    \* (ligand_file_path, ligand_file_type)
    mol,
    ligand_metrics,
    warned,         \* warnings emitted so far, in order
    stdout,         \* lines printed so far
    exit_status     \* None while the process runs

\* State of one run of the plot generator
VARIABLES
    plot_pc,            \* position in the script
    csv,                \* what is behind CSV_FILE: status, columns, rows
    df,                 \* the table, None before it is loaded
    sorted_receptors,
    receptor_i,         \* position of the chart 3 loop in sorted_receptors
    exported,           \* chart files saved so far, in order
    plot_stdout,        \* messages printed so far
    plot_exit           \* None while the process runs

metrics_vars ==
    <<pc, log_file, file, ligand_dirs, fs, receptor_name, ligand_name,
      affinity, results, ligand_file, mol, ligand_metrics, warned, stdout,
      exit_status>>
plot_vars ==
    <<plot_pc, csv, df, sorted_receptors, receptor_i, exported, plot_stdout,
      plot_exit>>
vars == <<metrics_vars, plot_vars>>

\* the plot generator is not running
PlotIdle ==
    /\ plot_pc = "idle"
    /\ csv = None
    /\ df = None
    /\ sorted_receptors = <<>>
    /\ receptor_i = 0
    /\ exported = <<>>
    /\ plot_stdout = <<>>
    /\ plot_exit = None

\* ---- inputs ----
File(status, lines) == [status |-> status, lines |-> lines]

\* A file of status "error" holds the lines iterated before the exception.
Files(lineKinds, n) ==
    {File("missing", <<>>)}
    \cup {File(st, ls) : st \in {"ok", "error"}, ls \in SeqsUpTo(lineKinds, n)}

LineKinds(recs, ligs, affs) ==
    {Line(r, l, a) : r \in {None} \cup {Str(x) : x \in recs},
                     l \in {None} \cup {Str(x) : x \in ligs},
                     a \in {None} \cup {Str(x) : x \in affs}}

\* log_file for a directory basename: "<dir>/g" ("g" alone when dir is empty)
InDir(d) == IF d = <<>> THEN <<"g">> ELSE d \o <<"/", "g">>

ScanLineKinds ==
    LineKinds({<<"r", EXT>>, <<"d", "/", "s", EXT>>},
              {<<"l", EXT>>, <<"m", EXT>>},
              {<<"-", "7", ".", "5">>, <<"3">>})
ScanLogFiles == {<<"g">>, <<"x", "/", "g">>, <<"x", "_", "y", "/", "g">>}

FallbackLineKinds ==
    LineKinds({<<"r", EXT>>}, {<<"l", EXT>>}, {<<"-", "7", ".", "5">>})
FallbackLogFiles ==
    {InDir(d) : d \in SeqsUpTo({"x", "_"}, MaxDirLen)}
    \cup {<<"p", "/">> \o InDir(d) : d \in SeqsUpTo({"x", "_"}, MaxDirLen)}

MainLineKinds ==
    LineKinds({<<"r", EXT>>, <<EXT>>, <<"r", ",", "s", EXT>>},
              {<<"d", "/", "l", EXT>>, <<EXT>>},
              {<<"-", "7", ".", "5">>, <<"9", "9", "9">>})
MainLogFiles ==
    {<<"g">>, <<"x", "_", "y", "/", "g">>, <<"_", "y", "/", "g">>, <<"x", "/", "g">>}

DefaultLigandDirs == << <<"ligands">>, <<"ligands_pdbqt">> >>

\* the candidate paths of a ligand in the given directories
Candidates(name, dirs) ==
    {path_join(dirs[i], name \o <<e>>) : i \in 1..Len(dirs), e \in {".sdf", EXT}}

Molecules ==
    {Mol(FALSE, 1, 20, 150000, 2500), Mol(FALSE, 0, 20, 150000, 2500),
     Mol(TRUE, 1, 20, 150000, 2500), Mol(FALSE, 1, 1, 0, -1200),
     Mol(FALSE, 1, 0, 0, 0)}

NoFile == [path |-> None, file_type |-> None]

InitRun(files, logFiles, dirLists) ==
    /\ pc = "start"
    /\ log_file \in logFiles
    /\ file \in files
    /\ ligand_dirs \in dirLists
    /\ fs = {}
    /\ receptor_name = None
    /\ ligand_name = None
    /\ affinity = None
    /\ results = [k \in ResultKeys |-> None]
    /\ ligand_file = NoFile
    /\ mol = None
    /\ ligand_metrics = AllNone
    /\ warned = <<>>
    /\ stdout = <<>>
    /\ exit_status = None
    /\ PlotIdle

\* ---- steps of __main__ ----

\* 1. parse_vina_log, then the results dictionary is initialised
ParseVinaLog ==
    /\ pc = "start"
    /\ UNCHANGED plot_vars
    /\ \E p \in {parse_vina_log(log_file, file)} :
           /\ receptor_name' = p.receptor
           /\ ligand_name' = p.ligand
           /\ affinity' = p.affinity
           /\ results' = [k \in ResultKeys |->
                            CASE k = <<"Receptor">> -> p.receptor
                              [] k = <<"Ligand">> -> p.ligand
                              [] k = <<"Affinity">> -> p.affinity
                              [] OTHER -> None]
           /\ warned' = warned \o p.warned
    /\ pc' = "parsed"
    /\ UNCHANGED <<log_file, file, ligand_dirs, fs, ligand_file, mol,
                   ligand_metrics, stdout, exit_status>>

\* `if receptor_name and ligand_name` is false: steps 2-5 are skipped
SkipSteps ==
    /\ pc = "parsed"
    /\ UNCHANGED plot_vars
    /\ ~(Truthy(receptor_name) /\ Truthy(ligand_name))
    /\ pc' = "output"
    /\ UNCHANGED <<log_file, file, ligand_dirs, fs, receptor_name, ligand_name,
                   affinity, results, ligand_file, mol, ligand_metrics, warned,
                   stdout, exit_status>>

\* 2. pKi
CalculatePKi ==
    /\ pc = "parsed"
    /\ UNCHANGED plot_vars
    /\ Truthy(receptor_name) /\ Truthy(ligand_name)
    /\ \E r \in {calculate_pKi(affinity)} :
           /\ results' = [results EXCEPT ![<<"pKi">>] = r.value]
           /\ warned' = warned \o r.warned
    /\ pc' = "find"
    /\ UNCHANGED <<log_file, file, ligand_dirs, fs, receptor_name, ligand_name,
                   affinity, ligand_file, mol, ligand_metrics, stdout, exit_status>>

\* 3a. find_ligand_file; the file system is read here
FindLigandFile ==
    /\ pc = "find"
    /\ UNCHANGED plot_vars
    /\ \E files \in SUBSET Candidates(ligand_name.v, ligand_dirs) :
         \E f \in {find_ligand_file(files, ligand_name.v, ligand_dirs)} :
             /\ fs' = files
             /\ ligand_file' = [path |-> f.path, file_type |-> f.file_type]
             /\ warned' = warned \o f.warned
    /\ pc' = "load"
    /\ UNCHANGED <<log_file, file, ligand_dirs, receptor_name, ligand_name,
                   affinity, results, mol, ligand_metrics, stdout, exit_status>>

\* 3b. load_molecule when a file was found
LoadMolecule ==
    /\ pc = "load"
    /\ UNCHANGED plot_vars
    /\ IF Truthy(ligand_file.path)
       THEN \E outcome \in LoadOutcomes(ligand_file.file_type), m \in Molecules :
              \E l \in {load_molecule(ligand_file.file_type, outcome, m)} :
                  /\ mol' = l.mol
                  /\ warned' = warned \o l.warned
                        \o (IF l.mol = None THEN <<"mol_not_loaded">> ELSE <<>>)
       ELSE UNCHANGED <<mol, warned>>
    /\ pc' = "metrics"
    /\ UNCHANGED <<log_file, file, ligand_dirs, fs, receptor_name, ligand_name,
                   affinity, results, ligand_file, ligand_metrics, stdout,
                   exit_status>>

\* 4. calculate_ligand_metrics, merged into results; an exception leaving
\* the call would end the script with a traceback and status 1
CalculateLigandMetrics ==
    /\ pc = "metrics"
    /\ UNCHANGED plot_vars
    /\ \E m \in {calculate_ligand_metrics(mol)} :
           IF m.raised
           THEN /\ pc' = "aborted"
                /\ exit_status' = PyInt(1)
                /\ UNCHANGED <<ligand_metrics, results, warned>>
           ELSE /\ ligand_metrics' = m.metrics
                /\ results' = [k \in ResultKeys |->
                                 IF k \in MetricKeys THEN m.metrics[k] ELSE results[k]]
                /\ warned' = warned \o m.warned
                /\ pc' = "efficiency"
                /\ UNCHANGED exit_status
    /\ UNCHANGED <<log_file, file, ligand_dirs, fs, receptor_name, ligand_name,
                   affinity, ligand_file, mol, stdout>>

\* 5. calculate_efficiency_metrics, only when an affinity was parsed; an
\* exception leaving the call would end the script with status 1
CalculateEfficiency ==
    /\ pc = "efficiency"
    /\ UNCHANGED plot_vars
    /\ IF affinity # None
       THEN \E e \in {calculate_efficiency_metrics(affinity, results[<<"pKi">>],
                                                      ligand_metrics)} :
                IF e.raised
                THEN /\ pc' = "aborted"
                     /\ exit_status' = PyInt(1)
                     /\ UNCHANGED <<results, warned>>
                ELSE /\ results' = [k \in ResultKeys |->
                                      IF k \in EfficiencyKeys THEN e.metrics[k]
                                      ELSE results[k]]
                     /\ warned' = warned \o e.warned
                     /\ pc' = "output"
                     /\ UNCHANGED exit_status
       ELSE /\ pc' = "output"
            /\ UNCHANGED <<results, warned, exit_status>>
    /\ UNCHANGED <<log_file, file, ligand_dirs, fs, receptor_name, ligand_name,
                   affinity, ligand_file, mol, ligand_metrics, stdout>>

\* 6. the CSV row is printed and the script ends
PrintRow ==
    /\ pc = "output"
    /\ UNCHANGED plot_vars
    /\ \E values \in {formatted_values(results)} :
         \E row \in {join(",", values)} : stdout' = Append(stdout, row)
    /\ exit_status' = PyInt(0)
    /\ pc' = "done"
    /\ UNCHANGED <<log_file, file, ligand_dirs, fs, receptor_name, ligand_name,
                   affinity, results, ligand_file, mol, ligand_metrics, warned>>

\* a whole run is given `--ligand_dirs ligands`; the search over several
\* directories is examined under SpecFind
MainLigandDirs == << <<"ligands">> >>

Init == InitRun(Files(MainLineKinds, MainMaxLines), MainLogFiles, {MainLigandDirs})

Next ==
    \/ ParseVinaLog
    \/ SkipSteps
    \/ CalculatePKi
    \/ FindLigandFile
    \/ LoadMolecule
    \/ CalculateLigandMetrics
    \/ CalculateEfficiency
    \/ PrintRow

Spec == Init /\ [][Next]_vars

\* the script runs to its end: nothing but the interpreter schedules it
FairSpec == Spec /\ WF_vars(Next)

\* ------------------------------------------------------------------------
\* The plot generator, statement by statement
\* ------------------------------------------------------------------------
\* the metrics extractor is not running
MetricsIdle ==
    /\ pc = "idle"
    /\ log_file = <<>>
    /\ file = File("missing", <<>>)
    /\ ligand_dirs = <<>>
    /\ fs = {}
    /\ receptor_name = None
    /\ ligand_name = None
    /\ affinity = None
    /\ results = [k \in ResultKeys |-> None]
    /\ ligand_file = NoFile
    /\ mol = None
    /\ ligand_metrics = AllNone
    /\ warned = <<>>
    /\ stdout = <<>>
    /\ exit_status = None

\* ---- inputs ----
\* columns that are NaN in a row written for a ligand without a molecule,
\* and for a molecule without a conformer
NoMoleculeCols == NumericCols \ {"Affinity_kcal_mol", "pKi"}
NoConformerCols == {"SASA_A2", "SILE_SASA"}

CsvRow(columns, receptor, ligand, aff, nan) ==
    [c \in columns |->
        CASE c = "Receptor" -> receptor
          [] c = "Ligand" -> ligand
          [] c = "Affinity_kcal_mol" -> aff
          [] OTHER -> IF c \in nan THEN None ELSE Float(1000)]

ReceptorNames == {Str(<<"B">>), Str(<<"A", "B">>), Str(<<"a">>)}

CsvRows(columns) ==
    {CsvRow(columns, r, Str(<<"l">>), Float(-7500), nan) :
        r \in ReceptorNames, nan \in {{}, NoMoleculeCols, NoConformerCols}}
    \cup {CsvRow(columns, None, Str(<<"l">>), Float(-7500), {}),
          CsvRow(columns, Str(<<"B">>), None, Float(-7500), {}),
          CsvRow(columns, Str(<<"B">>), Str(<<"l">>), Str(<<"N", "/", "A">>), {})}

\* the header has every column, or lacks one of them
ColumnSets == {AllCols} \cup {AllCols \ {c} : c \in AllCols}

CsvFiles ==
    {[status |-> st, columns |-> {}, rows |-> <<>>] : st \in {"missing", "unreadable"}}
    \cup {[status |-> "ok", columns |-> cols, rows |-> rows] :
             cols \in ColumnSets, rows \in {<<>>}}
    \cup UNION {{[status |-> "ok", columns |-> cols, rows |-> rows] :
                    rows \in SeqsUpTo(CsvRows(cols), MaxRows)} : cols \in ColumnSets}

InitPlot ==
    /\ MetricsIdle
    /\ plot_pc = "load"
    /\ csv \in CsvFiles
    /\ df = None
    /\ sorted_receptors = <<>>
    /\ receptor_i = 0
    /\ exported = <<>>
    /\ plot_stdout = <<>>
    /\ plot_exit = None

\* an uncaught exception: traceback, exit status 1
Crash(error) ==
    /\ plot_pc' = "crashed"
    /\ plot_exit' = PyInt(1)
    /\ plot_stdout' = Append(plot_stdout, <<"traceback", error>>)
    /\ UNCHANGED <<df, sorted_receptors, receptor_i, exported>>

\* plt.savefig(...) and the "Generated:" message
Export(chart, next) ==
    /\ exported' = Append(exported, chart)
    /\ plot_stdout' = Append(plot_stdout, <<"generated">> \o chart)
    /\ plot_pc' = next
    /\ UNCHANGED <<df, sorted_receptors, receptor_i, plot_exit>>

\* the "Skipping ..." message of an else-branch
Skip(what, next) ==
    /\ plot_stdout' = Append(plot_stdout, <<"skipping", what>>)
    /\ plot_pc' = next
    /\ UNCHANGED <<df, sorted_receptors, receptor_i, exported, plot_exit>>

\* Load Data: the try block and its two handlers
LoadData ==
    /\ plot_pc = "load"
    /\ UNCHANGED <<metrics_vars, csv>>
    /\ \E l \in {load_data(csv)} :
         /\ plot_stdout' = plot_stdout \o l.out
         /\ IF l.failed
            THEN /\ plot_pc' = "exited"
                 /\ plot_exit' = PyInt(1)
                 /\ UNCHANGED df
            ELSE /\ plot_pc' = "chart1"
                 /\ df' = l.df
                 /\ UNCHANGED plot_exit
    /\ UNCHANGED <<sorted_receptors, receptor_i, exported>>

\* 1. distribution of the affinity scores (an empty table draws an empty chart)
Chart1 ==
    /\ plot_pc = "chart1"
    /\ UNCHANGED <<metrics_vars, csv>>
    /\ Export(Chart("affinity_distribution_overall"), "chart2")

\* 2. box plot per receptor, only with more than one receptor
Chart2 ==
    /\ plot_pc = "chart2"
    /\ UNCHANGED <<metrics_vars, csv>>
    /\ \E sorted \in {receptors_sorted(df)} :
         /\ sorted_receptors' = sorted
         /\ receptor_i' = 1
         /\ IF Len(sorted) > 1
            THEN /\ exported' = Append(exported, Chart("affinity_boxplot_per_receptor"))
                 /\ plot_stdout' = Append(plot_stdout,
                        <<"generated">> \o Chart("affinity_boxplot_per_receptor"))
            ELSE /\ plot_stdout' = Append(plot_stdout, <<"skipping", "boxplot">>)
                 /\ UNCHANGED exported
    /\ plot_pc' = "chart3"
    /\ UNCHANGED <<df, plot_exit>>

\* 3. one pass of `for receptor in sorted_receptors`: the receptor's top ligands
Chart3 ==
    /\ plot_pc = "chart3"
    /\ receptor_i <= Len(sorted_receptors)
    /\ UNCHANGED <<metrics_vars, csv>>
    /\ LET receptor == sorted_receptors[receptor_i]
           receptor_df == SelectSeq(df.rows, LAMBDA r : r["Receptor"] = receptor)
       IN  IF receptor_df = <<>>
           THEN plot_stdout' = Append(plot_stdout, <<"no_data", receptor.v>>)
                /\ UNCHANGED exported
           ELSE /\ exported' = Append(exported, TopLigandsChart(receptor))
                /\ plot_stdout' = Append(plot_stdout,
                       <<"generated">> \o TopLigandsChart(receptor))
    /\ receptor_i' = receptor_i + 1
    /\ UNCHANGED <<plot_pc, df, sorted_receptors, plot_exit>>

\* 4. affinity against molecular weight, once the loop of chart 3 is over;
\* seaborn raises ValueError when the table has no column MW
Chart4 ==
    /\ plot_pc = "chart3"
    /\ receptor_i > Len(sorted_receptors)
    /\ UNCHANGED <<metrics_vars, csv>>
    /\ IF "MW" \notin df.columns
       THEN Crash("ValueError")
       ELSE Export(Chart("affinity_vs_mw"), "chart5")

\* charts 5-7: dropna on the two columns (KeyError when one is absent), then
\* the chart when rows are left, the skip message otherwise
Scatter(columns, name, next) ==
    IF ~(columns \subseteq df.columns)
    THEN Crash("KeyError")
    ELSE IF ~empty(dropna(df, columns))
    THEN Export(Chart(name), next)
    ELSE Skip(name, next)

\* 5. pKi against LogP
Chart5 ==
    /\ plot_pc = "chart5"
    /\ UNCHANGED <<metrics_vars, csv>>
    /\ Scatter({"pKi", "LogP"}, "pki_vs_logp", "chart6")

\* 6. LE against affinity
Chart6 ==
    /\ plot_pc = "chart6"
    /\ UNCHANGED <<metrics_vars, csv>>
    /\ Scatter({"Affinity_kcal_mol", "LE"}, "le_vs_affinity", "chart7")

\* 7. SILE_SASA against pKi
Chart7 ==
    /\ plot_pc = "chart7"
    /\ UNCHANGED <<metrics_vars, csv>>
    /\ Scatter({"pKi", "SILE_SASA"}, "sile_sasa_vs_pki", "chart8")

\* 8. correlation heatmap; df[numeric_cols] raises KeyError when a numeric
\* column is absent
Chart8 ==
    /\ plot_pc = "chart8"
    /\ UNCHANGED <<metrics_vars, csv>>
    /\ IF ~(NumericCols \subseteq df.columns)
       THEN Crash("KeyError")
       ELSE Export(Chart("metrics_correlation_heatmap"), "chart9")

\* 9. pair plot of the selected metrics that are present
Chart9 ==
    /\ plot_pc = "chart9"
    /\ UNCHANGED <<metrics_vars, csv>>
    /\ LET available_metrics == SelectSeq(selected_metrics, LAMBDA m : m \in df.columns)
           cols == {available_metrics[i] : i \in 1..Len(available_metrics)}
                   \cup {"Receptor"}
       IN  IF Len(available_metrics) > 1
           THEN IF ~empty(dropna(df, cols))
                THEN Export(Chart("metrics_pairplot"), "finish")
                ELSE Skip("pairplot_no_data", "finish")
           ELSE Skip("pairplot_no_metrics", "finish")

\* the closing message; the script ends
Finish ==
    /\ plot_pc = "finish"
    /\ UNCHANGED <<metrics_vars, csv>>
    /\ plot_stdout' = Append(plot_stdout, <<"all_plots_saved">>)
    /\ plot_pc' = "finished"
    /\ plot_exit' = PyInt(0)
    /\ UNCHANGED <<df, sorted_receptors, receptor_i, exported>>

NextPlot ==
    \/ LoadData
    \/ Chart1
    \/ Chart2
    \/ Chart3
    \/ Chart4
    \/ Chart5
    \/ Chart6
    \/ Chart7
    \/ Chart8
    \/ Chart9
    \/ Finish

SpecPlot == InitPlot /\ [][NextPlot]_vars

\* ---- parse_vina_log on its own: the line loop ----
LigandDirLists == {DefaultLigandDirs}

InitScan == InitRun(Files(ScanLineKinds, ScanMaxLines), ScanLogFiles, LigandDirLists)
SpecScan == InitScan /\ [][ParseVinaLog]_vars

\* ---- parse_vina_log on its own: the directory fallback ----
InitParse ==
    InitRun(Files(FallbackLineKinds, FallbackMaxLines), FallbackLogFiles, LigandDirLists)
SpecParse == InitParse /\ [][ParseVinaLog]_vars

\* ---- the run up to find_ligand_file, over search lists and file systems ----
SearchDirs == {<<"ligands">>, <<"ligands_pdbqt">>, <<"more">>}
SearchDirLists == SeqsUpTo(SearchDirs, MaxSearchDirs) \ {<<>>}
FindFiles ==
    {File("ok", <<Line(Str(<<"r", EXT>>), Str(<<"l", EXT>>), None),
                  Line(None, None, Str(<<"-", "7", ".", "5">>))>>)}

InitFind == InitRun(FindFiles, {<<"g">>}, SearchDirLists)
NextFind == ParseVinaLog \/ CalculatePKi \/ FindLigandFile
SpecFind == InitFind /\ [][NextFind]_vars

\* ------------------------------------------------------------------------
\* Properties of the metrics extractor
\* ------------------------------------------------------------------------
FieldsOf(row) == split(row, ",")
Printed == pc = "done"
IsMissing(value) == value = None \/ value = Str(<<>>)

\* C1: every run prints exactly one line of exactly 17 comma-separated
\* fields, whatever the parsed names, affinity and descriptors are.
C1_OneRowOf17Fields ==
    Printed => Len(stdout) = 1 /\ Len(FieldsOf(stdout[1])) = Len(header)

\* C2 as stated: a run on a log file that does not exist ends with a
\* non-zero exit status.
C2_MissingLogExitsNonZero ==
    (file.status = "missing" /\ exit_status # None) => exit_status # PyInt(0)

\* C2 amended: a run on a log file that does not exist warns that the log
\* was not found, skips steps 2-5, prints one row of 17 NA fields and ends
\* with exit status 0.
C2_MissingLogPrintsNARow ==
    file.status = "missing" =>
        /\ exit_status \in {None, PyInt(0)}
        /\ pc \notin {"find", "load", "metrics", "efficiency", "aborted"}
        /\ pc # "start" => warned = <<"log_not_found">>
        /\ Printed => /\ exit_status = PyInt(0)
                      /\ stdout = <<join(",", [i \in 1..Len(header) |-> NA])>>

C2_Witness == file.status = "missing" /\ Printed /\ Len(stdout) = 1

\* C3: every column whose value is missing (None, or an empty name) is
\* printed as NA, never as an empty field.
C3_MissingPrintedAsNA ==
    Printed =>
        /\ stdout = <<csv_row(results)>>
        /\ \A i \in 1..Len(header) :
              /\ IsMissing(results[internal_key(header[i])])
                    => formatted_values(results)[i] = NA
              /\ formatted_values(results)[i] # <<>>

\* C4: no failure aborts the run. Every run reaches the output step, prints
\* its row and ends with status 0, and each failure on the way (no affinity,
\* no names, no ligand file, molecule not loaded, descriptor error) has
\* emitted its warning.
InWarned(w) == \E i \in 1..Len(warned) : warned[i] = w

C4_FailuresWarned ==
    /\ pc # "aborted"
    /\ (pc # "start" /\ file.status # "missing" /\ affinity = None)
          => InWarned("no_affinity")
    /\ (pc # "start" /\ (receptor_name = None \/ ligand_name = None))
          => (InWarned("no_names") \/ InWarned("log_not_found"))
    /\ (pc \in {"load", "metrics", "efficiency", "output", "done"}
        /\ Truthy(receptor_name) /\ Truthy(ligand_name) /\ ligand_file.path = None)
          => InWarned("ligand_file_not_found")
    /\ (pc \in {"metrics", "efficiency", "output", "done"}
        /\ ligand_file.path # None /\ mol = None)
          => InWarned("mol_not_loaded")
    /\ (pc \in {"efficiency", "output", "done"} /\ mol # None /\ mol.raises)
          => InWarned("rdkit_error")
    /\ Printed => Len(stdout) = 1 /\ exit_status = PyInt(0)

EfficiencyCalled ==
    /\ pc \in {"output", "done"}
    /\ Truthy(receptor_name) /\ Truthy(ligand_name)
    /\ affinity # None

Defined(key) == results[key] # None

\* C11: calculate_efficiency_metrics never raises, and after its call LE
\* and SILE_N are defined exactly when the heavy-atom count is present and
\* above 0, LLE exactly when pKi and LogP are present, SILE_SASA exactly
\* when pKi is present and SASA is present and above 1e-6; no ratio is the
\* result of a division by zero.
C11_RatiosUnderPreconditions ==
    /\ pc # "aborted"
    /\ EfficiencyCalled =>
          LET nha  == ligand_metrics[<<"NHA">>]
              logp == ligand_metrics[<<"LogP">>]
              sasa == ligand_metrics[<<"SASA">>]
              pki  == results[<<"pKi">>]
          IN  /\ Defined(<<"LE">>) <=> (nha # None /\ nha.v > 0)
              /\ Defined(<<"SILE_N">>) <=> (nha # None /\ nha.v > 0)
              /\ Defined(<<"LLE">>) <=> (pki # None /\ logp # None)
              /\ Defined(<<"SILE_SASA">>) <=>
                    (pki # None /\ sasa # None /\ sasa.v > 0)
              /\ \A k \in EfficiencyKeys : results[k] # ZeroDivisionError

\* a molecule without heavy atoms and without surface: the two guarded
\* divisions are left out, LLE is still computed
C11_Witness ==
    /\ EfficiencyCalled /\ Printed
    /\ ligand_metrics[<<"NHA">>] = PyInt(0)
    /\ ligand_metrics[<<"SASA">>] = Float(0)
    /\ results[<<"pKi">>] # None
    /\ ~Defined(<<"LE">>) /\ ~Defined(<<"SILE_N">>) /\ ~Defined(<<"SILE_SASA">>)
    /\ Defined(<<"LLE">>)
    /\ InWarned("sasa_near_zero")

\* ------------------------------------------------------------------------
\* Properties of the results gating in __main__
\* ------------------------------------------------------------------------
DerivedKeys == {<<"pKi">>} \cup MetricKeys \cup EfficiencyKeys

\* the positions of the derived columns in the header
DerivedColumns == {i \in 1..Len(header) : internal_key(header[i]) \in DerivedKeys}
EfficiencyColumns == {i \in 1..Len(header) : header[i] \in EfficiencyKeys}
MetricColumns == {i \in 1..Len(header) : internal_key(header[i]) \in MetricKeys}
AffinityColumn ==
    CHOOSE i \in 1..Len(header) : header[i] = <<"Affinity", "_kcal_mol">>
pKiColumn == CHOOSE i \in 1..Len(header) : header[i] = <<"pKi">>

NameMissing == IsMissing(receptor_name) \/ IsMissing(ligand_name)

\* the values formatted for the row that was printed
PrintedValues == formatted_values(results)

\* C12: when the receptor or the ligand name is None or empty after
\* parsing, none of steps 2-5 runs, the 14 derived columns are printed as NA
\* and the Affinity column carries the parsed affinity if one was found;
\* when both names are present and the affinity is missing, pKi and the four
\* ratios are NA and the descriptor columns carry what
\* calculate_ligand_metrics returned.
C12_ResultsGating ==
    /\ (pc # "start" /\ NameMissing) =>
          /\ pc \in {"parsed", "output", "done"}
          /\ \A k \in DerivedKeys : results[k] = None
          /\ results[<<"Affinity">>] = affinity
          /\ fs = {} /\ ligand_file = NoFile /\ mol = None
          /\ Printed =>
                /\ stdout = <<join(",", PrintedValues)>>
                /\ \A i \in DerivedColumns : PrintedValues[i] = NA
                /\ PrintedValues[AffinityColumn] =
                      IF affinity = None THEN NA ELSE format_3f(affinity.v)
    /\ (pc \in {"output", "done"} /\ ~NameMissing /\ affinity = None) =>
          /\ results[<<"pKi">>] = None
          /\ \A k \in EfficiencyKeys : results[k] = None
          /\ \A k \in MetricKeys : results[k] = calculate_ligand_metrics(mol).metrics[k]
          /\ Printed =>
                /\ stdout = <<join(",", PrintedValues)>>
                /\ PrintedValues[pKiColumn] = NA
                /\ PrintedValues[AffinityColumn] = NA
                /\ \A i \in EfficiencyColumns : PrintedValues[i] = NA
                /\ \A i \in MetricColumns :
                      PrintedValues[i] =
                         format_value(header[i], ligand_metrics[internal_key(header[i])])

\* an empty ligand name next to a parsed affinity: the affinity is printed,
\* the derived columns are NA
C12_Witness ==
    /\ Printed
    /\ receptor_name # None /\ ligand_name = Str(<<>>)
    /\ affinity # None
    /\ PrintedValues[AffinityColumn] # NA
    /\ \A i \in DerivedColumns : PrintedValues[i] = NA
    /\ Cardinality(DerivedColumns) = 14

\* both names, no affinity, a molecule whose descriptors were computed
C12_DescriptorsReported ==
    /\ Printed /\ ~NameMissing /\ affinity = None
    /\ \A i \in MetricColumns : PrintedValues[i] # NA
    /\ \A i \in EfficiencyColumns : PrintedValues[i] = NA

\* ------------------------------------------------------------------------
\* Properties of parse_vina_log
\* ------------------------------------------------------------------------
Parsed == pc = "parsed"

\* the first line of the file on which the field's pattern matches, 0 if none
FirstMatching(lines, field) ==
    IF \E i \in 1..Len(lines) : lines[i][field] # None
    THEN CHOOSE i \in 1..Len(lines) :
            /\ lines[i][field] # None
            /\ \A j \in 1..(i-1) : lines[j][field] = None
    ELSE 0

DirParts == split(basename(dirname(log_file)), "_")

\* C8: a name parsed from the log is returned as parsed, whatever the
\* directory is called; the directory supplies only the names the log lacks.
C8_LogNamesTakePrecedence ==
    (Parsed /\ file.status # "missing") =>
        LET r == FirstMatching(file.lines, "receptor_match")
            l == FirstMatching(file.lines, "ligand_match")
        IN  /\ r # 0 => receptor_name = Str(ExtractName(file.lines[r].receptor_match.v))
            /\ l # 0 => ligand_name = Str(ExtractName(file.lines[l].ligand_match.v))
            /\ (r # 0 /\ l # 0) => ~InWarned("no_names_in_log_or_dir")
            /\ (r = 0 /\ Len(DirParts) < 2) => receptor_name = None
            /\ (l = 0 /\ Len(DirParts) < 2) => ligand_name = None

C8_Witness ==
    /\ Parsed
    /\ FirstMatching(file.lines, "receptor_match") # 0
    /\ FirstMatching(file.lines, "ligand_match") = 0
    /\ Len(DirParts) >= 2
    /\ DirParts[1] # <<"r">>
    /\ receptor_name = Str(<<"r">>)
    /\ ligand_name = Str(join("_", Tail(DirParts)))

\* the directory part of log_file as the fallback reads it
DirBasename == basename(dirname(log_file))
FirstUnderscore == Find(DirBasename, "_")

\* C13: when the fallback runs and the directory basename holds a '_', a
\* receptor the log did not give is the text before the first '_' and a
\* ligand the log did not give is all the text after it, so that both
\* together give back the basename; when the basename holds no '_', the
\* names are as the scan of the log left them.
C13_DirectoryFallbackNames ==
    (Parsed /\ file.status # "missing") =>
        LET r == FirstMatching(file.lines, "receptor_match")
            l == FirstMatching(file.lines, "ligand_match")
            scan == ScanLines(file.lines, 1, Len(file.lines), ScanStart)
        IN  /\ (FirstUnderscore # 0 /\ r = 0) =>
                  receptor_name = Str(SubSeq(DirBasename, 1, FirstUnderscore - 1))
            /\ (FirstUnderscore # 0 /\ l = 0) =>
                  ligand_name = Str(SubSeq(DirBasename, FirstUnderscore + 1,
                                           Len(DirBasename)))
            /\ (FirstUnderscore # 0 /\ r = 0 /\ l = 0) =>
                  receptor_name.v \o <<"_">> \o ligand_name.v = DirBasename
            /\ FirstUnderscore = 0 =>
                  /\ receptor_name = scan.receptor
                  /\ ligand_name = scan.ligand
                  /\ r = 0 => receptor_name = None
                  /\ l = 0 => ligand_name = None

\* both names from a directory called x_x_x: the ligand keeps its underscore
C13_Witness ==
    /\ Parsed /\ file.status = "ok"
    /\ FirstMatching(file.lines, "receptor_match") = 0
    /\ FirstMatching(file.lines, "ligand_match") = 0
    /\ DirBasename = <<"x", "_", "x", "_", "x">>
    /\ receptor_name = Str(<<"x">>)
    /\ ligand_name = Str(<<"x", "_", "x">>)

\* every line scanned, no early exit
RECURSIVE ScanEveryLine(_, _, _)
ScanEveryLine(lines, i, st) ==
    IF i > Len(lines) THEN st
    ELSE ScanEveryLine(lines, i + 1, ScanLine(st, lines[i]))

\* C10: for a readable file each of receptor, ligand and affinity is taken
\* from the first line matching its pattern, and the early exit changes
\* nothing: the result is that of a scan of every line.
C10_FirstMatchWins ==
    (Parsed /\ file.status = "ok") =>
        LET r == FirstMatching(file.lines, "receptor_match")
            l == FirstMatching(file.lines, "ligand_match")
            a == FirstMatching(file.lines, "affinity_match")
            full == DirFallback(ScanEveryLine(file.lines, 1, ScanStart), log_file)
        IN  /\ r # 0 => receptor_name = Str(ExtractName(file.lines[r].receptor_match.v))
            /\ l # 0 => ligand_name = Str(ExtractName(file.lines[l].ligand_match.v))
            /\ a # 0 => affinity = Float(float(file.lines[a].affinity_match.v))
            /\ a = 0 => affinity = None
            /\ <<receptor_name, ligand_name, affinity>>
                  = <<full.receptor, full.ligand, full.affinity>>

\* the early exit is taken on line 1 and a later line matches differently
C10_Witness ==
    /\ Parsed /\ file.status = "ok" /\ Len(file.lines) >= 2
    /\ file.lines[1].receptor_match # None
    /\ file.lines[1].ligand_match # None
    /\ file.lines[1].affinity_match # None
    /\ file.lines[2].receptor_match \notin {None, file.lines[1].receptor_match}
    /\ file.lines[2].affinity_match \notin {None, file.lines[1].affinity_match}
    /\ receptor_name = Str(ExtractName(file.lines[1].receptor_match.v))

\* ------------------------------------------------------------------------
\* Properties of find_ligand_file
\* ------------------------------------------------------------------------
Found == pc = "load"
HasFile(i, extension) ==
    path_join(ligand_dirs[i], ligand_name.v \o <<extension>>) \in fs
DirsWith(extension) == {i \in 1..Len(ligand_dirs) : HasFile(i, extension)}
Earliest(S) == CHOOSE i \in S : \A j \in S : i <= j

\* C9: the SDF of the earliest directory that has one is returned whenever
\* any directory has one; otherwise the PDBQT of the earliest directory that
\* has one; (None, None) only when no directory has either file.
C9_SdfPreferredAcrossDirs ==
    Found =>
        IF DirsWith(".sdf") # {}
        THEN ligand_file =
               [path |-> Str(ligand_dirs[Earliest(DirsWith(".sdf"))]
                             \o <<"/">> \o ligand_name.v \o <<".sdf">>),
                file_type |-> Str(<<"sdf">>)]
        ELSE IF DirsWith(EXT) # {}
        THEN ligand_file =
               [path |-> Str(ligand_dirs[Earliest(DirsWith(EXT))]
                             \o <<"/">> \o ligand_name.v \o <<EXT>>),
                file_type |-> Str(<<"pdbqt">>)]
        ELSE ligand_file = NoFile /\ InWarned("ligand_file_not_found")

\* a PDBQT in the first directory, the SDF only in a later one
C9_Witness ==
    /\ Found /\ Len(ligand_dirs) >= 2
    /\ HasFile(1, EXT) /\ ~HasFile(1, ".sdf") /\ HasFile(2, ".sdf")
    /\ ligand_file.file_type = Str(<<"sdf">>)

\* ------------------------------------------------------------------------
\* Properties of the plot generator
\* ------------------------------------------------------------------------
InExported(chart) == \E i \in 1..Len(exported) : exported[i] = chart
LoadFails == csv.status # "ok" \/ ~(KeyCols \subseteq csv.columns)
ReceptorsLeft == {df.rows[i]["Receptor"] : i \in 1..Len(df.rows)}

\* C5: when the CSV file does not exist or cannot be loaded, the process
\* exits with a non-zero status and no chart is ever exported.
C5_LoadFailureExportsNothing ==
    LoadFails =>
        /\ exported = <<>>
        /\ plot_pc \in {"load", "exited"}
        /\ plot_pc = "exited" => plot_exit = PyInt(1)

C5_Witness == csv.status = "missing" /\ plot_pc = "exited" /\ plot_exit = PyInt(1)

\* C6: missing data never aborts the run. Rows lacking Affinity, Receptor
\* or Ligand are removed before any chart, and a chart whose columns are
\* absent or hold no value is skipped; the script goes on to its closing
\* message.
C6_MissingDataNeverAborts ==
    ~LoadFails =>
        /\ plot_pc # "crashed"
        /\ plot_exit \in {None, PyInt(0)}
        /\ df # None => \A i \in 1..Len(df.rows) :
                           \A c \in KeyCols : df.rows[i][c] # None
        /\ plot_pc = "finished" =>
              plot_stdout[Len(plot_stdout)] = <<"all_plots_saved">>

\* position of a chart in the script; the top-ligands charts share position 3
ChartRank(chart) ==
    CASE chart = Chart("affinity_distribution_overall") -> 1
      [] chart = Chart("affinity_boxplot_per_receptor") -> 2
      [] chart = Chart("affinity_vs_mw") -> 4
      [] chart = Chart("pki_vs_logp") -> 5
      [] chart = Chart("le_vs_affinity") -> 6
      [] chart = Chart("sile_sasa_vs_pki") -> 7
      [] chart = Chart("metrics_correlation_heatmap") -> 8
      [] chart = Chart("metrics_pairplot") -> 9
      [] OTHER -> 3
ReceptorOf(chart) == Str(SubSeq(chart, 2, Len(chart) - 1))

\* C7: the charts are exported in the fixed order of the script, the
\* top-ligands charts in ascending order of receptor name (Python's order on
\* str), none twice; the box plot exactly when there is more than one
\* receptor; a finished run has the first chart and one top-ligands chart
\* per receptor.
C7_FixedExportOrder ==
    /\ \A i, j \in 1..Len(exported) :
          i < j =>
            \/ ChartRank(exported[i]) < ChartRank(exported[j])
            \/ /\ ChartRank(exported[i]) = 3
               /\ ChartRank(exported[j]) = 3
               /\ LessStr(ReceptorOf(exported[i]), ReceptorOf(exported[j]))
    /\ InExported(Chart("affinity_boxplot_per_receptor"))
          => Cardinality(ReceptorsLeft) > 1
    /\ plot_pc = "finished" =>
          /\ exported[1] = Chart("affinity_distribution_overall")
          /\ Cardinality(ReceptorsLeft) > 1
                => exported[2] = Chart("affinity_boxplot_per_receptor")
          /\ \A r \in ReceptorsLeft : InExported(TopLigandsChart(r))
          /\ InExported(Chart("affinity_vs_mw"))
          /\ InExported(Chart("metrics_correlation_heatmap"))

\* a finished run on a table whose receptors appear in descending order and
\* whose chart 7 was skipped
C7_Witness ==
    /\ plot_pc = "finished"
    /\ Len(df.rows) = 2
    /\ LessStr(df.rows[2]["Receptor"], df.rows[1]["Receptor"])
    /\ ~InExported(Chart("sile_sasa_vs_pki"))
    /\ InExported(Chart("pki_vs_logp"))
    /\ InExported(Chart("affinity_boxplot_per_receptor"))

====
